---- MODULE Spec2Model ----
(***************************************************************************)
(* A model of streamlit_app.py: the import-time choice of the PDF backend, *)
(* and one press of the "Process Files & Invert Colors" button in main():  *)
(* the page-count pass, the PDF pass (rasterize, then one page at a time), *)
(* the image pass, the completion of the progress bar, the preview and the *)
(* download section.                                                       *)
(*                                                                         *)
(* What the libraries do with a file's bytes is the nondeterministic input *)
(* of a run: whether an image decodes, how many pages a PDF has, whether   *)
(* its page count and its rasterization succeed.  An uncaught exception    *)
(* ends the script run (pc = "crashed").                                   *)
(***************************************************************************)
EXTENDS Integers, Sequences, FiniteSets, TLC

\* Bounds of the model.
MaxFiles == 2
MaxPages == 3
MaxSide == 2

None == "None"

\* The modules the import statements of lines 16, 22 and 27 ask for.
Libs == {"pdf2image", "fitz", "pymupdf"}

\* The options of the three selectboxes and the strings they map to.
NamingOptions ==
    {"Add '_inverted' suffix", "Add '_ink_saver' suffix", "Add '_print_ready' suffix"}
FormatOptions == {"PNG (Best Quality)", "JPG (Smaller Size)"}
PageNamingOptions == {"filename_page_1", "filename_p1", "page_1_filename"}

\* The files a user may upload.  A file is its name (stem and extension) and
\* what the libraries make of its bytes: ok (Image.open/convert/invert/save
\* succeed), pages (the pages of the document), count_ok (the page count
\* succeeds), render_ok (the rasterization succeeds).
ImageNames ==
    { [stem |-> "a", ext |-> "png"], [stem |-> "a", ext |-> "jpg"],
      [stem |-> "b", ext |-> "png"] }
PdfNames == { [stem |-> "slide", ext |-> "pdf"] }

ImageFiles ==
    { [name |-> n, ok |-> o, pages |-> 0, count_ok |-> o, render_ok |-> o] :
        n \in ImageNames, o \in BOOLEAN }
\* A PDF has one page or MaxPages pages.  One whose bytes parse in neither
\* pass has no page number to speak of: it is listed once, with pages = 1.
PdfFiles ==
    { f \in [name : PdfNames, ok : {FALSE}, pages : {1, MaxPages},
             count_ok : BOOLEAN, render_ok : BOOLEAN] :
        (~f.count_ok /\ ~f.render_ok) => f.pages = 1 }
FileUniverse == ImageFiles \cup PdfFiles

RECURSIVE SeqsUpTo(_, _)
SeqsUpTo(S, n) ==
    IF n = 0 THEN {<<>>}
    ELSE LET shorter == SeqsUpTo(S, n - 1)
         IN  shorter \cup { Append(s, x) : s \in {t \in shorter : Len(t) = n - 1}, x \in S }
Batches == { b \in SeqsUpTo(FileUniverse, MaxFiles) : b # <<>> }

VARIABLES
    importable,         \* the modules the interpreter can import
    PDF_SUPPORT,        \* line 11
    PDF_LIBRARY,        \* line 12
    offered_files,      \* the files the user gives to the uploader
    uploaded_files,     \* line 299
    naming,             \* line 347
    output_format,      \* line 354
    page_naming,        \* line 366 (None when the selectbox is not shown)
    pc,                 \* where the script run is
    exception,          \* the uncaught exception that ended the run, or None
    total_operations,   \* line 397
    pdf_page_count,     \* line 400
    current_operation,  \* line 425
    processed_files,    \* line 424: the dict, as its items in insertion order
    pdf_idx,            \* the pdf_file the loops of lines 402 and 429 are at
    pdf_images,         \* line 437
    page_idx,           \* i of line 442: the pages of pdf_images done so far
    img_idx,            \* the image_file the loop of line 477 is at
    st_errors,          \* the st.error messages, in order
    st_warnings,        \* the st.warning messages, in order
    events,             \* progress-bar updates and units of work, in order
    delivery,           \* what the download section offers
    zip_calls,          \* the calls of create_download_zip
    open_handles,       \* the operations that left a fitz document open
    inversions          \* the inverter alone: bytes given to it, and what it made of them in turn

vars ==
    <<importable, PDF_SUPPORT, PDF_LIBRARY, offered_files, uploaded_files, naming,
      output_format, page_naming, pc, exception, total_operations, pdf_page_count,
      current_operation, processed_files, pdf_idx, pdf_images, page_idx, img_idx,
      st_errors, st_warnings, events, delivery, zip_calls, open_handles,
      inversions>>

----------------------------------------------------------------------------
\* Names.

\* str.lower() on the extensions of the model.
Lower(s) == IF s = "PDF" THEN "pdf" ELSE s

FileName(f) == f.name.stem \o "." \o f.name.ext

\* f.name.lower().endswith('.pdf')
IsPdfName(f) == Lower(f.name.ext) = "pdf"

\* Path(name).stem
Stem(f) == f.name.stem

RECURSIVE SelectSeq2(_, _)
SelectSeq2(s, keepPdf) ==
    IF s = <<>> THEN <<>>
    ELSE IF IsPdfName(Head(s)) = keepPdf
         THEN <<Head(s)>> \o SelectSeq2(Tail(s), keepPdf)
         ELSE SelectSeq2(Tail(s), keepPdf)

\* Lines 310 and 311.
PdfFilesOf(files) == SelectSeq2(files, TRUE)
ImageFilesOf(files) == SelectSeq2(files, FALSE)
pdf_files == PdfFilesOf(uploaded_files)
image_files == ImageFilesOf(uploaded_files)

\* suffix_map[naming], lines 453-458 and 495-500.
suffix_map(n) ==
    CASE n = "Add '_inverted' suffix" -> "_inverted"
      [] n = "Add '_ink_saver' suffix" -> "_ink_saver"
      [] n = "Add '_print_ready' suffix" -> "_print_ready"

\* Lines 461-464 and 503-506.
Ext(fmt) == IF fmt = "PNG (Best Quality)" THEN ".png" ELSE ".jpg"

\* One file name for the whole document: no page index in it.
PageFilename_NoIndex(base_name, i, pn, suffix, ext) == base_name \o suffix \o ext

\* The page file name with the index unshifted (pages numbered from 0).
PageFilename_FromZero(base_name, i, pn, suffix, ext) ==
    IF pn = "filename_page_1"
    THEN base_name \o "_page_" \o ToString(i) \o suffix \o ext
    ELSE IF pn = "filename_p1"
    THEN base_name \o "_p" \o ToString(i) \o suffix \o ext
    ELSE "page_" \o ToString(i) \o "_" \o base_name \o suffix \o ext

\* Lines 467-472, with i the index enumerate() gives (from 0).
PageFilename(base_name, i, pn, suffix, ext) ==
    IF pn = "filename_page_1"
    THEN base_name \o "_page_" \o ToString(i + 1) \o suffix \o ext
    ELSE IF pn = "filename_p1"
    THEN base_name \o "_p" \o ToString(i + 1) \o suffix \o ext
    ELSE "page_" \o ToString(i + 1) \o "_" \o base_name \o suffix \o ext

\* Line 508.
ImageFilename(base_name, suffix, ext) == base_name \o suffix \o ext

----------------------------------------------------------------------------
\* The backend, lines 10-31.

\* The chain with the two libraries tried in the other order.
SelectBackend_PyMuPdfFirst(avail) ==
    IF "fitz" \in avail THEN [support |-> TRUE, library |-> "pymupdf"]
    ELSE IF "pymupdf" \in avail THEN [support |-> TRUE, library |-> "pymupdf"]
    ELSE IF "pdf2image" \in avail THEN [support |-> TRUE, library |-> "pdf2image"]
    ELSE [support |-> FALSE, library |-> None]

\* The try/except chain: pdf2image first, then PyMuPDF under its two names.
SelectBackend(avail) ==
    IF "pdf2image" \in avail THEN [support |-> TRUE, library |-> "pdf2image"]
    ELSE IF "fitz" \in avail THEN [support |-> TRUE, library |-> "pymupdf"]
    ELSE IF "pymupdf" \in avail THEN [support |-> TRUE, library |-> "pymupdf"]
    ELSE [support |-> FALSE, library |-> None]

----------------------------------------------------------------------------
\* Images and the functions of lines 97-196.

\* A decoded image: where it comes from (page 0: the file itself) and whether
\* convert/invert/save succeed on it.
Img(f, k, ok) == [src |-> f.name, page |-> k, ok |-> ok]

\* ImageOps.invert(image.convert('RGB')) saved as PNG.
InvertedPng(image) == <<"PNG", "inverted", image.src, image.page>>

\* convert_from_bytes / the fitz page loop: the pages in document order, each
\* with its page_name's number (i + 1).
Rasterize(f) == [i \in 1..f.pages |-> [image |-> Img(f, i, TRUE), page_name |-> i]]

\* convert_pdf_to_images (st.cache_data replays the same result and messages
\* for the same bytes): the list of pages, and the st.error it shows.
convert_pdf_to_images(f) ==
    IF ~PDF_SUPPORT
    THEN [images |-> <<>>, errors |-> << <<"PDF processing not available", None>> >>]
    ELSE IF f.render_ok
    THEN [images |-> Rasterize(f), errors |-> <<>>]
    ELSE [images |-> <<>>, errors |-> << <<"Error converting PDF with", PDF_LIBRARY>> >>]

\* process_pil_image: the PNG bytes, or None (here <<>>) and an st.error.
process_pil_image(image, filename) ==
    IF image.ok
    THEN [bytes |-> InvertedPng(image), errors |-> <<>>]
    ELSE [bytes |-> <<>>, errors |-> << <<"Error processing", filename>> >>]

\* process_image_file: Image.open on the file's bytes, then as above.
process_image_file(f, filename) ==
    IF f.ok
    THEN [bytes |-> InvertedPng(Img(f, 0, TRUE)), errors |-> <<>>]
    ELSE [bytes |-> <<>>, errors |-> << <<"Error processing", filename>> >>]

\* zipfile.ZIP_DEFLATED, line 191: an entry holds its bytes compressed.
Deflate(file_bytes) == <<"deflated", file_bytes>>

\* The archive with its entries in the opposite order.
create_download_zip_Reversed(files) ==
    <<"ZIP_DEFLATED",
      [i \in 1..Len(files) |->
         <<files[Len(files) + 1 - i].filename, Deflate(files[Len(files) + 1 - i].data)>>]>>

\* create_download_zip: one writestr per item of the dict, in its order.
create_download_zip(files) ==
    <<"ZIP_DEFLATED",
      [i \in 1..Len(files) |-> <<files[i].filename, Deflate(files[i].data)>>]>>

\* processed_files[filename] = data: a new key goes last, an old key keeps its
\* place and takes the new value.
DictKeys(d) == { d[i].filename : i \in 1..Len(d) }
DictSet(d, filename, data) ==
    IF filename \in DictKeys(d)
    THEN [i \in 1..Len(d) |->
            IF d[i].filename = filename THEN [filename |-> filename, data |-> data]
            ELSE d[i]]
    ELSE Append(d, [filename |-> filename, data |-> data])
DictGet(d, filename) ==
    d[CHOOSE i \in 1..Len(d) : d[i].filename = filename].data

----------------------------------------------------------------------------
\* The inverter on pixels, lines 140-185.

\* The 8-bit modes of the images given to it: grayscale, palette, RGB, RGBA.
ModeNames == {"L", "P", "RGB", "RGBA"}

\* len(image.getbands())
Bands(mode) ==
    CASE mode = "L" -> 1
      [] mode = "P" -> 1
      [] mode = "RGB" -> 3
      [] mode = "RGBA" -> 4

\* The pixels the images are made of: dark, light and in between; for P they
\* are indexes into the palette.
SamplePixels(mode) ==
    CASE mode = "L" -> { <<0>>, <<255>>, <<100>> }
      [] mode = "P" -> { <<0>>, <<1>>, <<2>> }
      [] mode = "RGB" -> { <<0, 0, 0>>, <<255, 255, 255>>, <<10, 128, 250>> }
      [] mode = "RGBA" -> { <<0, 0, 0, 255>>, <<255, 255, 255, 0>>, <<10, 128, 250, 77>> }
SamplePalette == << <<255, 255, 255>>, <<0, 0, 0>>, <<10, 128, 250>> >>

\* A decoded image: its mode, its size (width, height), its pixels row by row
\* and, in mode P, its palette.  The images have one row or two.
Images ==
    UNION { { [mode |-> m, size |-> <<w, h>>, data |-> d,
               palette |-> IF m = "P" THEN SamplePalette ELSE <<>>] :
                 d \in [1..(w * h) -> SamplePixels(m)] } :
            m \in ModeNames, w \in 1..MaxSide, h \in {1, 2} }

RECURSIVE Flatten(_)
Flatten(data) == IF data = <<>> THEN <<>> ELSE Head(data) \o Flatten(Tail(data))

Chunk(s, k) == [i \in 1..(Len(s) \div k) |-> SubSeq(s, (i - 1) * k + 1, i * k)]

\* The colour type of the PNG header for a mode, and back.
ColourType(mode) ==
    CASE mode = "L" -> 0
      [] mode = "RGB" -> 2
      [] mode = "P" -> 3
      [] mode = "RGBA" -> 6
ModeOf(colour_type) ==
    CASE colour_type = 0 -> "L"
      [] colour_type = 2 -> "RGB"
      [] colour_type = 3 -> "P"
      [] colour_type = 6 -> "RGBA"

\* image.save(buffer, format='PNG'), lines 157 and 178: the header, the
\* palette and the samples one after the other.
save_PNG(image) ==
    [format |-> "PNG", width |-> image.size[1], height |-> image.size[2],
     colour_type |-> ColourType(image.mode), plte |-> image.palette,
     idat |-> Flatten(image.data)]

\* Image.open(io.BytesIO(image_bytes)), line 144.
Image_open(image_bytes) ==
    [mode |-> ModeOf(image_bytes.colour_type),
     size |-> <<image_bytes.width, image_bytes.height>>,
     data |-> Chunk(image_bytes.idat, Bands(ModeOf(image_bytes.colour_type))),
     palette |-> image_bytes.plte]

\* image.convert('RGB'), lines 148 and 171: gray is copied to the three
\* channels, an index is looked up in the palette, alpha is dropped.
convert_RGB(image) ==
    [mode |-> "RGB", size |-> image.size, palette |-> <<>>,
     data |-> [i \in 1..Len(image.data) |->
                 CASE image.mode = "L" ->
                        <<image.data[i][1], image.data[i][1], image.data[i][1]>>
                   [] image.mode = "P" -> image.palette[image.data[i][1] + 1]
                   [] image.mode = "RGB" -> image.data[i]
                   [] image.mode = "RGBA" -> SubSeq(image.data[i], 1, 3)]]

\* The lookup with the table built on 256 instead of 255.
InvertChannel_From256(v) == (256 - v) % 256

\* The lookup table of ImageOps.invert: 255 - i.
InvertChannel(v) == 255 - v

\* ImageOps.invert(image), lines 151 and 174.
ImageOps_invert(image) ==
    [mode |-> image.mode, size |-> image.size, palette |-> image.palette,
     data |-> [i \in 1..Len(image.data) |->
                 [c \in 1..Len(image.data[i]) |-> InvertChannel(image.data[i][c])]]]

\* The body of process_pil_image on pixels, lines 168-181.
process_pil_image_pixels(image) ==
    save_PNG(ImageOps_invert(IF image.mode # "RGB" THEN convert_RGB(image) ELSE image))

\* The body of process_image_file on pixels, lines 142-160.
process_image_file_pixels(image_bytes) ==
    LET image == Image_open(image_bytes)
    IN  save_PNG(ImageOps_invert(IF image.mode # "RGB" THEN convert_RGB(image) ELSE image))

----------------------------------------------------------------------------
\* fitz.open(stream=pdf_bytes) ... close(), lines 122-133, 385-387 and 412-414:
\* the documents open once the operation `where` on a PDF is over.
\* pdf2image opens no document in this process.  With PyMuPDF a success reaches
\* close(); a failure is raised by fitz.open itself (no document), or after it
\* (get_pixmap, tobytes, len), and then close() is skipped: nothing in the code
\* releases the document, which stays open unless the collector finalizes it.
HandlesAfter(where, ok) ==
    IF PDF_LIBRARY # "pymupdf" \/ ok THEN { open_handles }
    ELSE { open_handles, open_handles \cup { where } }

\* st.cache_data, line 97: the body of convert_pdf_to_images does not run again
\* for bytes it has already been called with.
CacheHit(files, n) == \E j \in 1..(n - 1) : files[j] = files[n]

----------------------------------------------------------------------------
\* The script.

\* The start of the script in one of the environments envs.
InitWith(envs) ==
    /\ importable \in envs
    /\ PDF_SUPPORT = FALSE
    /\ PDF_LIBRARY = None
    /\ offered_files = <<>>
    /\ uploaded_files = <<>>
    /\ naming = None
    /\ output_format = None
    /\ page_naming = None
    /\ pc = "import"
    /\ exception = None
    /\ total_operations = 0
    /\ pdf_page_count = 0
    /\ current_operation = 0
    /\ processed_files = <<>>
    /\ pdf_idx = 1
    /\ pdf_images = <<>>
    /\ page_idx = 0
    /\ img_idx = 1
    /\ st_errors = <<>>
    /\ st_warnings = <<>>
    /\ events = <<>>
    /\ delivery = <<>>
    /\ zip_calls = 0
    /\ open_handles = {}
    /\ inversions = <<>>

\* Every set of importable modules.
InitAllEnvs == InitWith(SUBSET Libs)

\* One environment for each way the import chain can end.
Environments == { {}, {"pdf2image"}, {"fitz"}, {"pymupdf"} }
Init == InitWith(Environments)

\* Lines 10-31: the imports are tried and the backend is fixed.
ResolveBackend ==
    /\ pc = "import"
    /\ PDF_SUPPORT' = SelectBackend(importable).support
    /\ PDF_LIBRARY' = SelectBackend(importable).library
    /\ pc' = "idle"
    /\ UNCHANGED <<importable, offered_files, uploaded_files, naming, output_format,
                   page_naming, exception, total_operations, pdf_page_count, current_operation,
                   processed_files, pdf_idx, pdf_images, page_idx, img_idx,
                   st_errors, st_warnings, events, delivery, zip_calls, open_handles,
                   inversions>>

\* The list with pdf in it whether or not there is a backend.
supported_types_AlwaysPdf == <<"pdf", "png", "jpg", "jpeg", "bmp", "tiff">>

\* Lines 289-291: the extensions the uploader is told to allow.
supported_types ==
    IF PDF_SUPPORT THEN <<"pdf", "png", "jpg", "jpeg", "bmp", "tiff">>
    ELSE <<"png", "jpg", "jpeg", "bmp", "tiff">>

\* st.file_uploader(type=supported_types): a file whose extension is not
\* allowed is turned away by the widget and never reaches the script.
Allowed(f) == \E t \in 1..Len(supported_types) : Lower(f.name.ext) = supported_types[t]

RECURSIVE Accepted(_)
Accepted(files) ==
    IF files = <<>> THEN <<>>
    ELSE IF Allowed(Head(files)) THEN <<Head(files)>> \o Accepted(Tail(files))
    ELSE Accepted(Tail(files))

\* Lines 299-311, 347-370 and 394-400: the user gives files to the uploader,
\* chooses the options and, if any file was accepted (line 306), presses the
\* button; with no file accepted the run ends at the upload instructions
\* (lines 617-636).  The page-naming selectbox exists only when there are
\* PDFs and a backend, and a single PDF has its pages counted for the info
\* box (lines 373-391).
Submit ==
    /\ pc = "idle"
    /\ \E files \in Batches :
         /\ offered_files' = files
         /\ IF Accepted(files) = <<>>
            THEN /\ pc' = "no_files"
                 /\ UNCHANGED <<uploaded_files, naming, output_format, page_naming,
                                total_operations, open_handles>>
            ELSE /\ uploaded_files' = Accepted(files)
                 /\ naming' \in NamingOptions
                 /\ output_format' \in FormatOptions
                 /\ page_naming' \in
                      IF PdfFilesOf(Accepted(files)) # <<>> /\ PDF_SUPPORT
                      THEN PageNamingOptions ELSE {None}
                 /\ open_handles' \in
                      IF Len(PdfFilesOf(Accepted(files))) = 1 /\ PDF_SUPPORT
                      THEN HandlesAfter("info", PdfFilesOf(Accepted(files))[1].count_ok)
                      ELSE { open_handles }
                 /\ total_operations' = Len(ImageFilesOf(Accepted(files)))
                 /\ pc' = "count"
    /\ pdf_page_count' = 0
    /\ pdf_idx' = 1
    /\ UNCHANGED <<importable, PDF_SUPPORT, PDF_LIBRARY, exception, current_operation,
                   processed_files, pdf_images, page_idx, img_idx, st_errors,
                   st_warnings, events, delivery, zip_calls,
                   inversions>>

\* Lines 402-417: one turn of the page-count loop.  pdfinfo_from_bytes or
\* fitz.open/len either gives the number of pages or raises, and the except
\* clause warns and goes on.
CountPages ==
    /\ pc = "count"
    /\ PDF_SUPPORT
    /\ pdf_idx <= Len(pdf_files)
    /\ LET pdf_file == pdf_files[pdf_idx]
       IN  IF pdf_file.count_ok
           THEN /\ pdf_page_count' = pdf_page_count + pdf_file.pages
                /\ UNCHANGED st_warnings
           ELSE /\ st_warnings' =
                     Append(st_warnings, <<"Could not count pages in", FileName(pdf_file)>>)
                /\ UNCHANGED pdf_page_count
    /\ open_handles' \in HandlesAfter("count", pdf_files[pdf_idx].count_ok)
    /\ pdf_idx' = pdf_idx + 1
    /\ UNCHANGED <<importable, PDF_SUPPORT, PDF_LIBRARY, offered_files, uploaded_files, naming,
                   output_format, page_naming, pc, exception, total_operations,
                   current_operation, processed_files, pdf_images, page_idx, img_idx,
                   st_errors, events, delivery, zip_calls,
                   inversions>>

\* Where the run goes when the PDF at index i is finished, and when all are.
AfterPdfs == IF image_files # <<>> THEN "image" ELSE "complete"
AfterPdf(i) == IF i < Len(pdf_files) THEN "pdf" ELSE AfterPdfs

\* Lines 419-428: the total is fixed, the bar is created at 0, the results are
\* emptied, and the PDF loop is entered if there are PDFs and a backend.
StartProcessing ==
    /\ pc = "count"
    /\ ~PDF_SUPPORT \/ pdf_idx > Len(pdf_files)
    /\ total_operations' = total_operations + pdf_page_count
    /\ events' = << <<"bar", 0>> >>
    /\ processed_files' = <<>>
    /\ current_operation' = 0
    /\ pdf_idx' = 1
    /\ img_idx' = 1
    /\ pc' = IF pdf_files # <<>> /\ PDF_SUPPORT THEN "pdf" ELSE AfterPdfs
    /\ UNCHANGED <<importable, PDF_SUPPORT, PDF_LIBRARY, offered_files, uploaded_files, naming,
                   output_format, page_naming, exception, pdf_page_count, pdf_images,
                   page_idx, st_errors, st_warnings, delivery, zip_calls, open_handles,
                   inversions>>

\* Lines 429-439: the next PDF is rasterized; without pages it is done with.
\* The cached call gives the result and the st.error of the first one.
ConvertPdf ==
    /\ pc = "pdf"
    /\ LET pdf_file == pdf_files[pdf_idx]
           r == convert_pdf_to_images(pdf_file)
       IN  /\ pdf_images' = r.images
           /\ st_errors' = st_errors \o r.errors
           /\ events' = Append(events, <<"rasterize", pdf_file.name>>)
           /\ IF r.images # <<>>
              THEN /\ pc' = "page"
                   /\ UNCHANGED pdf_idx
              ELSE /\ pc' = AfterPdf(pdf_idx)
                   /\ pdf_idx' = pdf_idx + 1
    /\ open_handles' \in
         IF CacheHit(pdf_files, pdf_idx) THEN { open_handles }
         ELSE HandlesAfter("convert", pdf_files[pdf_idx].render_ok)
    /\ page_idx' = 0
    /\ UNCHANGED <<importable, PDF_SUPPORT, PDF_LIBRARY, offered_files, uploaded_files, naming,
                   output_format, page_naming, exception, total_operations,
                   pdf_page_count, current_operation, processed_files, img_idx,
                   st_warnings, delivery, zip_calls,
                   inversions>>

\* Lines 443-445 and 478-480: the counter goes up and the fraction is shown.
\* The division raises ZeroDivisionError on a total of 0, and st.progress
\* raises StreamlitAPIException on a value above 1.0; nothing catches either.
ProgressFault(cur, total) ==
    IF total = 0 THEN "ZeroDivisionError"
    ELSE IF cur > total THEN "StreamlitAPIException"
    ELSE None

Crash(exc) ==
    /\ pc' = "crashed"
    /\ exception' = exc

\* The unit with the update moved behind the work.
UnitEvents_WorkFirst(cur, total, image, bytes, output_filename) ==
    << <<"invert", cur, image.src, image.page>>, <<"progress", cur, total>> >> \o
    (IF bytes # <<>> THEN << <<"emit", output_filename, image.src, image.page>> >> ELSE <<>>)

\* Lines 443-451 and 478-490: what one unit does, in order: the progress
\* update, the inversion and, with bytes in hand, the entry in processed_files.
UnitEvents(cur, total, image, bytes, output_filename) ==
    << <<"progress", cur, total>>, <<"invert", cur, image.src, image.page>> >> \o
    (IF bytes # <<>> THEN << <<"emit", output_filename, image.src, image.page>> >> ELSE <<>>)

\* Lines 442-474: one page of the PDF at hand.
ProcessPage ==
    /\ pc = "page"
    /\ LET pdf_file == pdf_files[pdf_idx]
           base_name == Stem(pdf_file)
           i == page_idx
           page == pdf_images[i + 1]
           cur == current_operation + 1
           fault == ProgressFault(cur, total_operations)
           r == process_pil_image(page.image,
                                  base_name \o "_page_" \o ToString(page.page_name))
           output_filename ==
               PageFilename(base_name, i, page_naming, suffix_map(naming), Ext(output_format))
       IN  /\ current_operation' = cur
           /\ IF fault # None
              THEN /\ Crash(fault)
                   /\ UNCHANGED <<events, st_errors, processed_files, page_idx, pdf_idx>>
              ELSE /\ events' = events \o
                        UnitEvents(cur, total_operations, page.image, r.bytes, output_filename)
                   /\ st_errors' = st_errors \o r.errors
                   /\ processed_files' =
                        IF r.bytes # <<>>
                        THEN DictSet(processed_files, output_filename, r.bytes)
                        ELSE processed_files
                   /\ page_idx' = i + 1
                   /\ IF i + 1 = Len(pdf_images)
                      THEN /\ pc' = AfterPdf(pdf_idx)
                           /\ pdf_idx' = pdf_idx + 1
                      ELSE UNCHANGED <<pc, pdf_idx>>
                   /\ UNCHANGED exception
    /\ UNCHANGED <<importable, PDF_SUPPORT, PDF_LIBRARY, offered_files, uploaded_files, naming,
                   output_format, page_naming, total_operations, pdf_page_count,
                   pdf_images, img_idx, st_warnings, delivery, zip_calls, open_handles,
                   inversions>>

\* Lines 477-509: one image file.
ProcessImage ==
    /\ pc = "image"
    /\ LET image_file == image_files[img_idx]
           cur == current_operation + 1
           fault == ProgressFault(cur, total_operations)
           r == process_image_file(image_file, FileName(image_file))
           output_filename ==
               ImageFilename(Stem(image_file), suffix_map(naming), Ext(output_format))
       IN  /\ current_operation' = cur
           /\ IF fault # None
              THEN /\ Crash(fault)
                   /\ UNCHANGED <<events, st_errors, processed_files, img_idx>>
              ELSE /\ events' = events \o
                        UnitEvents(cur, total_operations, Img(image_file, 0, image_file.ok),
                                   r.bytes, output_filename)
                   /\ st_errors' = st_errors \o r.errors
                   /\ processed_files' =
                        IF r.bytes # <<>>
                        THEN DictSet(processed_files, output_filename, r.bytes)
                        ELSE processed_files
                   /\ img_idx' = img_idx + 1
                   /\ pc' = IF img_idx < Len(image_files) THEN "image" ELSE "complete"
                   /\ UNCHANGED exception
    /\ UNCHANGED <<importable, PDF_SUPPORT, PDF_LIBRARY, offered_files, uploaded_files, naming,
                   output_format, page_naming, total_operations, pdf_page_count,
                   pdf_idx, pdf_images, page_idx, st_warnings, delivery, zip_calls, open_handles,
                   inversions>>

\* Lines 524-533: the preview opens the first image file, or takes the first
\* page of the last rasterized PDF, and inverts it, outside any try.
PreviewFault ==
    IF image_files # <<>>
    THEN IF image_files[1].ok THEN None ELSE "UnidentifiedImageError"
    ELSE IF pdf_files # <<>> /\ pdf_images # <<>>
    THEN IF pdf_images[1].image.ok THEN None ELSE "OSError"
    ELSE None

\* Lines 546-585: one file is offered as it is, several as a ZIP.
Download(files) ==
    IF Len(files) = 1
    THEN <<"single", files[1].filename, files[1].data, "image/png">>
    ELSE <<"zip", "inverted_images.zip", create_download_zip(files), "application/zip">>

\* Lines 511-615: the bar is completed; with results, the preview and the
\* download section follow; without, the error message.
Finish ==
    /\ pc = "complete"
    /\ events' = Append(events, <<"bar", 1>>)
    /\ IF processed_files = <<>>
       THEN /\ st_errors' = Append(st_errors, <<"No files were successfully processed", None>>)
            /\ delivery' = <<"failure">>
            /\ pc' = "done"
            /\ UNCHANGED <<exception, zip_calls>>
       ELSE IF PreviewFault # None
       THEN /\ Crash(PreviewFault)
            /\ UNCHANGED <<st_errors, delivery, zip_calls>>
       ELSE /\ delivery' = Download(processed_files)
            /\ zip_calls' = IF Len(processed_files) = 1 THEN zip_calls ELSE zip_calls + 1
            /\ pc' = "done"
            /\ UNCHANGED <<st_errors, exception>>
    /\ UNCHANGED <<importable, PDF_SUPPORT, PDF_LIBRARY, offered_files, uploaded_files, naming,
                   output_format, page_naming, total_operations, pdf_page_count,
                   current_operation, processed_files, pdf_idx, pdf_images, page_idx,
                   img_idx, st_warnings, open_handles,
                   inversions>>

Next ==
    \/ ResolveBackend
    \/ Submit
    \/ CountPages
    \/ StartProcessing
    \/ ConvertPdf
    \/ ProcessPage
    \/ ProcessImage
    \/ Finish

Spec == Init /\ [][Next]_vars
SpecAllEnvs == InitAllEnvs /\ [][Next]_vars

----------------------------------------------------------------------------
\* The inverter alone: an image file is inverted, and what comes out is given
\* to the inverter again, as a file (process_image_file) or as the image a
\* rasterizer decoded from it (process_pil_image).

InitInverter ==
    /\ inversions \in { <<save_PNG(image)>> : image \in Images }
    /\ importable = {}
    /\ PDF_SUPPORT = FALSE
    /\ PDF_LIBRARY = None
    /\ offered_files = <<>>
    /\ uploaded_files = <<>>
    /\ naming = None
    /\ output_format = None
    /\ page_naming = None
    /\ pc = "inverter"
    /\ exception = None
    /\ total_operations = 0
    /\ pdf_page_count = 0
    /\ current_operation = 0
    /\ processed_files = <<>>
    /\ pdf_idx = 1
    /\ pdf_images = <<>>
    /\ page_idx = 0
    /\ img_idx = 1
    /\ st_errors = <<>>
    /\ st_warnings = <<>>
    /\ events = <<>>
    /\ delivery = <<>>
    /\ zip_calls = 0
    /\ open_handles = {}

InverterUnchanged ==
    UNCHANGED <<importable, PDF_SUPPORT, PDF_LIBRARY, offered_files, uploaded_files, naming,
                output_format, page_naming, pc, exception, total_operations,
                pdf_page_count, current_operation, processed_files, pdf_idx, pdf_images,
                page_idx, img_idx, st_errors, st_warnings, events, delivery, zip_calls,
                open_handles>>

\* process_image_file on the bytes made last.
InvertFile ==
    /\ pc = "inverter"
    /\ Len(inversions) < 3
    /\ inversions' = Append(inversions, process_image_file_pixels(inversions[Len(inversions)]))
    /\ InverterUnchanged

\* process_pil_image on the image decoded from the bytes made last.
InvertPage ==
    /\ pc = "inverter"
    /\ Len(inversions) < 3
    /\ inversions' =
         Append(inversions, process_pil_image_pixels(Image_open(inversions[Len(inversions)])))
    /\ InverterUnchanged

NextInverter == InvertFile \/ InvertPage

SpecInverter == InitInverter /\ [][NextInverter]_vars

----------------------------------------------------------------------------
\* Vocabulary of the properties.

Ended == pc \in {"done", "crashed"}
ProcessingOver == pc \in {"complete", "done"} \/ (pc = "crashed" /\ delivery = <<>>)

EventsOf(kind) == { j \in 1..Len(events) : events[j][1] = kind }

Pdf2ImageAvailable == "pdf2image" \in importable
PyMuPdfAvailable == "fitz" \in importable \/ "pymupdf" \in importable

\* The naming suffix and the extension the chosen options stand for.
ChosenSuffix ==
    CASE naming = "Add '_inverted' suffix" -> "_inverted"
      [] naming = "Add '_ink_saver' suffix" -> "_ink_saver"
      [] naming = "Add '_print_ready' suffix" -> "_print_ready"
      [] OTHER -> None
ChosenExt ==
    CASE output_format = "PNG (Best Quality)" -> ".png"
      [] output_format = "JPG (Smaller Size)" -> ".jpg"
      [] OTHER -> None

\* The name of the artifact of page k (from 1) of the PDF with base name B,
\* under the three layouts name_page_N, name_pN and page_N_name.
NameOfPage(B, k) ==
    CASE page_naming = "filename_page_1" ->
            B \o "_page_" \o ToString(k) \o ChosenSuffix \o ChosenExt
      [] page_naming = "filename_p1" ->
            B \o "_p" \o ToString(k) \o ChosenSuffix \o ChosenExt
      [] page_naming = "page_1_filename" ->
            "page_" \o ToString(k) \o "_" \o B \o ChosenSuffix \o ChosenExt
      [] OTHER -> None

----------------------------------------------------------------------------
\* C8 as stated: once the imports are done, PyMuPDF is the backend whenever
\* both libraries are importable, and there is no backend exactly when no
\* library is importable.
C8_PreferPyMuPdf ==
    pc # "import" =>
        /\ (Pdf2ImageAvailable /\ PyMuPdfAvailable => PDF_LIBRARY = "pymupdf")
        /\ (PDF_LIBRARY = None <=> ~Pdf2ImageAvailable /\ ~PyMuPdfAvailable)

\* C8 as amended: once the imports are done, and in every later state, the
\* backend is pdf2image whenever pdf2image is importable, PyMuPDF when only
\* PyMuPDF is (under either module name), and None exactly when no library
\* is importable; PDF_SUPPORT tells whether there is one.
C8_BackendFixedByPriority ==
    pc # "import" =>
        /\ (Pdf2ImageAvailable => PDF_LIBRARY = "pdf2image")
        /\ (~Pdf2ImageAvailable /\ PyMuPdfAvailable => PDF_LIBRARY = "pymupdf")
        /\ (PDF_LIBRARY = None <=> ~Pdf2ImageAvailable /\ ~PyMuPdfAvailable)
        /\ PDF_SUPPORT = (PDF_LIBRARY # None)

\* Both libraries importable, pdf2image chosen, and a PDF processed with it.
C8_Witness ==
    /\ pc = "done"
    /\ Pdf2ImageAvailable /\ PyMuPdfAvailable
    /\ PDF_LIBRARY = "pdf2image"
    /\ EventsOf("rasterize") # {}
    /\ processed_files # <<>>

----------------------------------------------------------------------------
SlideNames ==
    <<"slide_page_1_inverted.png", "slide_page_2_inverted.png",
      "slide_page_3_inverted.png", "slide_page_4_inverted.png">>

IsSlideExample ==
    /\ Len(uploaded_files) = 1
    /\ uploaded_files[1].name = [stem |-> "slide", ext |-> "pdf"]
    /\ uploaded_files[1].render_ok /\ uploaded_files[1].count_ok
    /\ PDF_SUPPORT
    /\ naming = "Add '_inverted' suffix"
    /\ output_format = "PNG (Best Quality)"
    /\ page_naming = "filename_page_1"

\* C5: every artifact made from page k of a PDF with base name B is stored
\* under B_page_k, B_pk or page_k_B (by the chosen layout) followed by the
\* chosen suffix and the extension of the chosen format, with the bytes of
\* that page; and slide.pdf alone, with the suffix _inverted, PNG and the
\* layout name_page_N, gives slide_page_1_inverted.png, ... in page order.
C5_PageNames ==
    /\ \A j \in EventsOf("emit") :
         events[j][4] > 0 => events[j][2] = NameOfPage(events[j][3].stem, events[j][4])
    /\ \A j \in EventsOf("emit") :
         (j = Len(events) /\ events[j][4] > 0) =>
            /\ NameOfPage(events[j][3].stem, events[j][4]) \in DictKeys(processed_files)
            /\ DictGet(processed_files, NameOfPage(events[j][3].stem, events[j][4]))
                 = <<"PNG", "inverted", events[j][3], events[j][4]>>
    /\ (IsSlideExample /\ pc = "done") =>
          /\ Len(processed_files) = uploaded_files[1].pages
          /\ \A k \in 1..Len(processed_files) :
                /\ processed_files[k].filename = SlideNames[k]
                /\ processed_files[k].data[4] = k

\* The example of the claim: slide.pdf with 3 pages, done.
C5_Witness ==
    /\ IsSlideExample
    /\ pc = "done"
    /\ uploaded_files[1].pages = 3
    /\ [k \in 1..3 |-> processed_files[k].filename]
         = <<"slide_page_1_inverted.png", "slide_page_2_inverted.png",
             "slide_page_3_inverted.png">>

----------------------------------------------------------------------------
IsOneGoodPdf ==
    /\ Len(uploaded_files) = 1
    /\ IsPdfName(uploaded_files[1])
    /\ uploaded_files[1].render_ok /\ uploaded_files[1].count_ok
    /\ PDF_SUPPORT

\* C4 as stated: no artifact of a PDF is in the output mapping before its
\* last page is done, and a PDF that is processed successfully (here: alone
\* in its batch) ends as exactly one artifact, a PDF document.
C4_OnePdfArtifact ==
    /\ (pc = "page" /\ pdf_idx = 1) => processed_files = <<>>
    /\ (IsOneGoodPdf /\ pc \in {"complete", "done"}) =>
          /\ Len(processed_files) = 1
          /\ processed_files[1].data[1] = "PDF"

\* C4 as amended: a PDF that is rasterized yields one PNG-encoded image
\* artifact per page, each put into the output mapping as soon as that page
\* is inverted: while the document is still being processed, the artifacts of
\* its pages done so far are there, with those pages' bytes; at the end of the
\* pass the mapping has an entry for every page of every rasterized PDF, and a
\* good n-page PDF alone gives exactly n artifacts.  Nothing is reassembled.
C4_OneImagePerPage ==
    /\ pc = "page" =>
          \A k \in 1..page_idx :
             /\ NameOfPage(Stem(pdf_files[pdf_idx]), k) \in DictKeys(processed_files)
             /\ DictGet(processed_files, NameOfPage(Stem(pdf_files[pdf_idx]), k))
                  = <<"PNG", "inverted", pdf_files[pdf_idx].name, k>>
    /\ (pc \in {"complete", "done"} /\ PDF_SUPPORT) =>
          \A n \in 1..Len(pdf_files) :
             pdf_files[n].render_ok =>
                \A k \in 1..pdf_files[n].pages :
                   /\ NameOfPage(Stem(pdf_files[n]), k) \in DictKeys(processed_files)
                   /\ DictGet(processed_files, NameOfPage(Stem(pdf_files[n]), k))[1] = "PNG"
    /\ (IsOneGoodPdf /\ pc \in {"complete", "done"}) =>
          Len(processed_files) = uploaded_files[1].pages

\* The first page of a 3-page PDF is in the mapping, two pages are to come.
C4_Witness ==
    /\ pc = "page"
    /\ Len(pdf_images) = 3
    /\ page_idx = 1
    /\ Len(processed_files) = 1
    /\ processed_files[1].data = <<"PNG", "inverted", pdf_files[pdf_idx].name, 1>>

----------------------------------------------------------------------------
ProgressEvents == EventsOf("progress")
InvertEvents == EventsOf("invert")

\* C10 as stated: every progress update comes after the work of its unit,
\* there is one per unit, and the counts go up by 1.
C10_UpdateAfterWork ==
    \A j \in ProgressEvents :
       /\ \E i \in InvertEvents : i < j /\ events[i][2] = events[j][2]
       /\ events[j][2] = Cardinality({ i \in ProgressEvents : i <= j })

\* C10 as amended: every unit that is processed has exactly one progress
\* update, emitted at its start: after the work of the units before it and
\* right before its own inversion; the updates come in unit order and count
\* 1, 2, 3, ...  Besides, the bar is set to 0 before the first unit and to 1
\* after the last, and a unit whose progress computation raises has no update
\* and no work.
C10_UpdateBeforeWork ==
    /\ \A j \in ProgressEvents :
          /\ j < Len(events)
          /\ events[j + 1][1] = "invert"
          /\ events[j + 1][2] = events[j][2]
          /\ events[j][2] = Cardinality({ i \in ProgressEvents : i <= j })
          /\ \A i \in InvertEvents : i < j => events[i][2] < events[j][2]
    /\ \A j \in InvertEvents : j > 1 /\ events[j - 1][1] = "progress"
    /\ \A j \in EventsOf("bar") :
          \/ j = 1 /\ events[j] = <<"bar", 0>>
          \/ j = Len(events) /\ j > 1 /\ events[j] = <<"bar", 1>>
    /\ current_operation =
          Cardinality(ProgressEvents) +
          (IF exception \in {"ZeroDivisionError", "StreamlitAPIException"} THEN 1 ELSE 0)

\* A finished run with a PDF page and an image, each with its update first.
C10_Witness ==
    /\ pc = "done"
    /\ Cardinality(ProgressEvents) >= 2
    /\ \E j \in ProgressEvents : events[j + 1][4] > 0
    /\ \E j \in ProgressEvents : events[j + 1][4] = 0

----------------------------------------------------------------------------
\* Valid and corrupt items.  A valid PDF is counted and rasterized, a corrupt
\* one parses in neither pass; a valid image decodes, a corrupt one does not.
IsValid(f) == IF IsPdfName(f) THEN f.count_ok /\ f.render_ok ELSE f.ok
IsCorrupt(f) == IF IsPdfName(f) THEN ~f.count_ok /\ ~f.render_ok ELSE ~f.ok

CorruptItems == { i \in 1..Len(uploaded_files) : IsCorrupt(uploaded_files[i]) }
ValidItems == { i \in 1..Len(uploaded_files) : IsValid(uploaded_files[i]) }

OneCorruptAmongValid ==
    /\ Cardinality(CorruptItems) = 1
    /\ Cardinality(ValidItems) = Len(uploaded_files) - 1
    /\ ValidItems # {}

Attempted(f) ==
    IF IsPdfName(f)
    THEN \E j \in EventsOf("rasterize") : events[j][2] = f.name
    ELSE \E j \in InvertEvents : events[j][3] = f.name /\ events[j][4] = 0

\* C1: a batch of K >= 1 valid items and 1 corrupt item is never aborted, and
\* ends with exactly K artifacts, with exactly one recorded failure, which
\* names the corrupt item, and with every item attempted.
C1_KArtifactsOneFailure ==
    OneCorruptAmongValid =>
        /\ pc # "crashed"
        /\ pc = "done" =>
              /\ Len(processed_files) = Cardinality(ValidItems)
              /\ Len(st_errors) = 1
              /\ \A i \in CorruptItems : st_errors[1][2] = FileName(uploaded_files[i])
              /\ \A i \in 1..Len(uploaded_files) : Attempted(uploaded_files[i])

----------------------------------------------------------------------------
\* C2: the total fixed before processing is the number of image files plus
\* the counted PDF pages, and when processing has ended it equals the number
\* of units attempted, the final current_operation.
C2_TotalEqualsAttempted ==
    pc \in {"complete", "done", "crashed"} =>
        /\ total_operations = Len(image_files) + pdf_page_count
        /\ current_operation = total_operations

----------------------------------------------------------------------------
AllValidImages ==
    /\ uploaded_files # <<>>
    /\ \A i \in 1..Len(uploaded_files) :
          ~IsPdfName(uploaded_files[i]) /\ uploaded_files[i].ok

\* C3: a batch of N valid images and no PDF ends with exactly N artifacts
\* and no recorded failure, whatever the names and the options.
C3_NArtifactsNoFailure ==
    AllValidImages =>
        /\ pc # "crashed"
        /\ pc \in {"complete", "done"} =>
              /\ Len(processed_files) = Len(uploaded_files)
              /\ st_errors = <<>>

----------------------------------------------------------------------------
BatchEnded == Ended /\ events # <<>> /\ events[Len(events)] = <<"bar", 1>>

\* C6: when the batch has ended, one artifact is delivered as its raw bytes,
\* several as one archive holding them all, none as a failure; and the
\* packager has run exactly when there were several.
C6_DeliveryByArtifactCount ==
    BatchEnded =>
        /\ delivery # <<>>
        /\ Len(processed_files) = 1 =>
              /\ delivery[1] = "single"
              /\ delivery[3] = processed_files[1].data
        /\ Len(processed_files) > 1 =>
              /\ delivery[1] = "zip"
              /\ Len(delivery[3][2]) = Len(processed_files)
        /\ Len(processed_files) = 0 => delivery[1] = "failure"
        /\ zip_calls = IF Len(processed_files) > 1 THEN 1 ELSE 0

----------------------------------------------------------------------------
BackendUnavailableErrors ==
    { j \in 1..Len(st_errors) : st_errors[j][1] = "PDF processing not available" }

\* C7 as stated: without a backend, at the end of the processing pass every
\* PDF input has its own recorded BackendUnavailable failure and no artifact,
\* and every image input has been processed.
C7_PdfsFailImagesUnaffected ==
    (~PDF_SUPPORT /\ pc \in {"complete", "done", "crashed"}) =>
        /\ Cardinality(BackendUnavailableErrors) = Len(PdfFilesOf(offered_files))
        /\ \A j \in EventsOf("emit") : events[j][4] = 0
        /\ Cardinality(InvertEvents) = Len(ImageFilesOf(offered_files))

\* The artifacts of the image files, in order: a function of the files and of
\* the naming options alone.
RECURSIVE ImageEmits(_)
ImageEmits(files) ==
    IF files = <<>> THEN <<>>
    ELSE (IF Head(files).ok
          THEN << <<"emit", Head(files).name.stem \o ChosenSuffix \o ChosenExt,
                    Head(files).name, 0>> >>
          ELSE <<>>) \o ImageEmits(Tail(files))

IsImageEmit(e) == e[1] = "emit" /\ e[4] = 0

\* C7 as amended: without a backend no PDF enters a batch (the uploader turns
\* it away), so a PDF offered gets no artifact, no rasterization and no
\* failure record of its own; and in every run that completes, with or
\* without a backend, the image files offered give the same artifacts.
C7_PdfsTurnedAway ==
    /\ (~PDF_SUPPORT /\ pc # "import") =>
          /\ pdf_files = <<>>
          /\ image_files = ImageFilesOf(offered_files)
          /\ EventsOf("rasterize") = {}
          /\ \A j \in EventsOf("emit") : events[j][4] = 0
          /\ BackendUnavailableErrors = {}
          /\ st_warnings = <<>>
    /\ pc \in {"complete", "done"} =>
          SelectSeq(events, IsImageEmit) = ImageEmits(ImageFilesOf(offered_files))

\* No backend, a PDF and a good image offered: one artifact, the image's.
C7_Witness ==
    /\ ~PDF_SUPPORT
    /\ pc = "done"
    /\ PdfFilesOf(offered_files) # <<>>
    /\ Len(processed_files) = 1
    /\ delivery[1] = "single"

----------------------------------------------------------------------------
RECURSIVE CountedPages(_)
CountedPages(files) ==
    IF files = <<>> THEN 0
    ELSE (IF Head(files).count_ok THEN Head(files).pages ELSE 0) + CountedPages(Tail(files))

\* C9: when the run has ended, a PDF whose page count failed has added
\* nothing to the total while the other PDFs were counted, it has been
\* rasterized, and, rasterized successfully, each of its pages was processed.
C9_UncountedStillProcessed ==
    (PDF_SUPPORT /\ Ended) =>
        \A n \in 1..Len(pdf_files) :
           ~pdf_files[n].count_ok =>
              /\ total_operations = Len(image_files) + CountedPages(pdf_files)
              /\ Cardinality(EventsOf("rasterize")) = Len(pdf_files)
              /\ pdf_files[n].render_ok =>
                    \A k \in 1..pdf_files[n].pages :
                       \E j \in InvertEvents :
                          events[j][3] = pdf_files[n].name /\ events[j][4] = k

----------------------------------------------------------------------------
\* C11: every document opened on PDF bytes, for the info box, for counting or
\* for rasterization, is released by the time the operation that opened it
\* is over, whether it succeeded or failed; so no document is open between
\* operations, nor when the batch has ended.
C11_HandlesReleased == open_handles = {}

----------------------------------------------------------------------------
\* The image given to the inverter, and the images decoded from what it made
\* of it the first and the second time.
Original == Image_open(inversions[1])
InvertedOnce == Image_open(inversions[2])
InvertedTwice == Image_open(inversions[3])

\* The three-channel form of an image: gray on all three channels, the
\* palette's colour for an index, the colour without its alpha.
Rgb(image, i) ==
    CASE image.mode = "L" -> <<image.data[i][1], image.data[i][1], image.data[i][1]>>
      [] image.mode = "P" -> image.palette[image.data[i][1] + 1]
      [] image.mode = "RGB" -> image.data[i]
      [] image.mode = "RGBA" -> <<image.data[i][1], image.data[i][2], image.data[i][3]>>

\* C12 as stated: for every image accepted, grayscale, palette and alpha
\* variants included, inverting twice gives back exactly the original image:
\* the same width and height, the same number of channels, the same pixels.
C12_InvolutionOnEveryMode ==
    Len(inversions) = 3 =>
        /\ InvertedTwice.size = Original.size
        /\ Bands(InvertedTwice.mode) = Bands(Original.mode)
        /\ InvertedTwice.data = Original.data

\* C12 as amended: the inverter's output is always a three-channel RGB image
\* of the width and height of its input, each channel 255 minus the channel
\* of the input's three-channel form; so inverting twice gives back exactly
\* the three-channel form of the original, which is the original itself,
\* channel count included, when the original is RGB, and has three channels
\* instead of one or four when it is grayscale, palette or RGBA.
C12_InvolutionOnRgb ==
    /\ Len(inversions) >= 2 =>
          /\ InvertedOnce.mode = "RGB"
          /\ InvertedOnce.size = Original.size
          /\ Len(InvertedOnce.data) = Original.size[1] * Original.size[2]
          /\ \A i \in 1..Len(Original.data) : \A c \in 1..3 :
                InvertedOnce.data[i][c] = 255 - Rgb(Original, i)[c]
    /\ Len(inversions) = 3 =>
          /\ InvertedTwice.mode = "RGB"
          /\ InvertedTwice.size = Original.size
          /\ Len(InvertedTwice.data) = Len(Original.data)
          /\ \A i \in 1..Len(Original.data) : InvertedTwice.data[i] = Rgb(Original, i)
          /\ Original.mode = "RGB" => InvertedTwice = Original
          /\ Original.mode # "RGB" => Bands(InvertedTwice.mode) # Bands(Original.mode)

\* A 2x1 grayscale image inverted twice: three equal channels per pixel.
C12_Witness ==
    /\ Len(inversions) = 3
    /\ Original.mode = "L"
    /\ Original.size = <<2, 1>>
    /\ Original.data = << <<100>>, <<0>> >>
    /\ InvertedOnce.data = << <<155, 155, 155>>, <<255, 255, 255>> >>
    /\ InvertedTwice.data = << <<100, 100, 100>>, <<0, 0, 0>> >>

----------------------------------------------------------------------------
\* What a reader finds in an archive: the entries in the order they were
\* written, each with its name and its bytes decompressed.
Inflate(entry_bytes) == IF entry_bytes[1] = "deflated" THEN entry_bytes[2] ELSE None
ZipEntries(archive) ==
    [i \in 1..Len(archive[2]) |->
        [filename |-> archive[2][i][1], data |-> Inflate(archive[2][i][2])]]

\* C13: the archive the packager builds from a mapping of M artifacts has
\* exactly M entries, the i-th named as the i-th artifact of the mapping and
\* holding its bytes; this for the archive that is delivered and for every
\* mapping the run goes through.
C13_ArchiveEntries ==
    /\ LET entries == ZipEntries(create_download_zip(processed_files))
       IN  /\ Len(entries) = Len(processed_files)
           /\ \A i \in 1..Len(processed_files) :
                 /\ entries[i].filename = processed_files[i].filename
                 /\ entries[i].data = processed_files[i].data
    /\ (delivery # <<>> /\ delivery[1] = "zip") =>
          /\ Len(ZipEntries(delivery[3])) = Len(processed_files)
          /\ \A i \in 1..Len(processed_files) :
                ZipEntries(delivery[3])[i] = processed_files[i]
          /\ \A i, j \in 1..Len(delivery[3][2]) :
                i # j => delivery[3][2][i][1] # delivery[3][2][j][1]

\* An archive of four artifacts is delivered: the three pages of a PDF and
\* an image, in the order they were made.
C13_Witness ==
    /\ pc = "done"
    /\ delivery[1] = "zip"
    /\ Len(processed_files) = 4
    /\ processed_files[1].data[4] = 1
    /\ processed_files[4].data[4] = 0
    /\ [i \in 1..4 |-> delivery[3][2][i][1]] = [i \in 1..4 |-> processed_files[i].filename]

----------------------------------------------------------------------------
\* C14: whenever a unit is about to be processed, the total fixed before the
\* processing is greater than zero and the counter is below it, so that no
\* progress computation raises and every update that is emitted shows a
\* fraction current_operation / total_operations in (0, 1].
C14_FractionInUnitInterval ==
    /\ pc \in {"page", "image"} =>
          /\ total_operations > 0
          /\ current_operation + 1 <= total_operations
    /\ exception \notin {"ZeroDivisionError", "StreamlitAPIException"}
    /\ \A j \in ProgressEvents :
          /\ events[j][3] > 0
          /\ 0 < events[j][2]
          /\ events[j][2] <= events[j][3]

====
